---- MODULE Spec2Model ----
(***************************************************************************)
(* The three MCP servers of telegram-mcp-server_chat-reader.ts:            *)
(*   "cr1"  TelegramChatReaderMCP, first listing  (lines 14-386)           *)
(*   "cr2"  TelegramChatReaderMCP, second listing (lines 401-726)          *)
(*   "bot"  TelegramMcpServer_botApi              (lines 739-943)          *)
(* A server is the CallToolRequestSchema handler, the adapter operations   *)
(* it routes to, the connection handle this.client, and the SIGINT         *)
(* handler.  The Telegram backend and the file system are the environment: *)
(* every awaited backend call settles with a nondeterministic outcome.     *)
(*                                                                         *)
(* A handler runs without interruption up to an await of a backend call;   *)
(* the model has one action per such run.  A handler that throws before    *)
(* its first backend call answers in the action that starts it.            *)
(*                                                                         *)
(* Texts are sequences of fragments, so that "the text contains X" is a    *)
(* contiguous sub-sequence test.                                           *)
(***************************************************************************)
EXTENDS Integers, Sequences, FiniteSets, Bags, TLC

\* Bounds of the model.
MaxCalls == 2      \* tool calls that reach a backend call in one process life
MaxSigints == 1    \* SIGINT deliveries

VARIABLES
    variant,          \* which of the three servers this process is
    credentialsFile,  \* contents of ./telegram_credentials.json
    sessionFile,      \* contents of ./telegram_session.txt
    client,           \* this.client: 0 is null, h > 0 the h-th TelegramClient
    conn,             \* backend state of every TelegramClient constructed
    calls,            \* the bag of tool calls suspended on a backend call
    issued,           \* how many tool calls have reached a backend call
    resp,             \* the response the last step returned, if it returned one
    transport,        \* the stdio transport of this.server
    proc,             \* the process
    exitCode,         \* its exit status, -1 while it runs
    sig,              \* the SIGINT handler invocations
    shutdownLog,      \* closes performed by the SIGINT handlers, in order
    fnArg,            \* what an adapter operation is handed, when one is studied alone
    fnRet             \* what it makes of it

vars == <<variant, credentialsFile, sessionFile, client, conn, calls, issued, resp,
          transport, proc, exitCode, sig, shutdownLog, fnArg, fnRet>>

Variants == {"cr1", "cr2", "bot"}
Handles == 1..MaxCalls

----------------------------------------------------------------------------
\* Tool names.

DataTools == {"get_dialogs", "get_messages", "search_global", "get_me"}
ConnectTools == {"auto_connect", "connect_telegram"}
BotTools == {"send_telegram_message", "get_telegram_updates", "send_telegram_photo"}

\* The names a caller may send: every tool of every server, and two names of
\* no server (callTool matches case-sensitively).
ToolNames == DataTools \cup ConnectTools \cup BotTools \cup {"bogus", "GET_ME"}

\* request.params.arguments: missing, or an object.
ArgsValues == {"undefined", "object"}

\* The tools array of the ListToolsRequestSchema handler.  The chat-reader
\* listings name auto_connect and connect_telegram and elide the rest as
\* "// ... other tools"; the elided entries are the data-fetching tools.
ListedTools(v) ==
    IF v = "bot" THEN BotTools ELSE ConnectTools \cup DataTools

\* The case labels of the switch in the CallToolRequestSchema handler.
SwitchCases(v) ==
    CASE v = "cr1" -> ConnectTools \cup DataTools
      [] v = "cr2" -> {"connect_telegram"} \cup DataTools
      [] v = "bot" -> BotTools

ToLowerCase(name) == IF name = "GET_ME" THEN "get_me" ELSE name

\* A switch that would compare names without regard to case.
RouteIgnoringCase(v, name) ==
    IF ToLowerCase(name) \in SwitchCases(v) THEN ToLowerCase(name) ELSE "default"

\* switch (name): the case label taken, "default" when none matches.
Route(v, name) == IF name \in SwitchCases(v) THEN name ELSE "default"

----------------------------------------------------------------------------
\* Texts and envelopes.

Contains(text, frag) ==
    \E i \in 1..(Len(text) - Len(frag) + 1) :
        SubSeq(text, i, i + Len(frag) - 1) = frag

NotConnectedMsg == <<"Not connected", " to Telegram. Use connect_telegram first.">>
NoCredentialsMsg ==
    <<"No saved credentials found", ". Please run authentication script first.">>
NoSessionMsg ==
    <<"No saved session found", ". Please run authentication script first.">>
AutoConnectedText == <<"Successfully connected to Telegram using saved session!">>
ConnectedText == <<"Successfully connected to Telegram using existing session!">>
ConnectFailedText ==
    <<"Connection failed. Please ensure you have run the authentication script first to save your session.">>

\* isError is "true", "false", or "absent" when the envelope has no such key.
Envelope(text, isError) ==
    [content |-> <<[type |-> "text", text |-> text]>>, isError |-> isError]

NoEnvelope == [content |-> <<>>, isError |-> "absent"]

\* errorContent(errorMessage) of the three servers.
errorContent(v, errorMessage) ==
    Envelope(<<"Error: ">> \o errorMessage, IF v = "bot" THEN "absent" ELSE "false")

\* Values a JavaScript throw or a rejected promise can carry.
Error(message) == [cls |-> "Error", message |-> message]
TypeError(message) == [cls |-> "TypeError", message |-> message]
ThrownString == [cls |-> "string", message |-> <<>>]
ThrownNull == [cls |-> "null", message |-> <<>>]

InstanceOfError(e) == e.cls \in {"Error", "TypeError"}

\* `const {...} = args` with args undefined.
DestructureError == TypeError(<<"Cannot destructure property of 'undefined'">>)

\* What an adapter operation hands back to the handler.
Return(env) == [kind |-> "return", env |-> env, err |-> ThrownNull]
Throw(e) == [kind |-> "throw", env |-> NoEnvelope, err |-> e]

\* `throw new Error(`${prefix}${error.message}`)` in a catch (error: any) block:
\* reading .message of null throws a TypeError out of the catch block, and a
\* value that is no Error has no message.
Rethrow(prefix, e) ==
    CASE e.cls = "null" ->
            Throw(TypeError(<<"Cannot read properties of null (reading 'message')">>))
      [] e.cls = "string" -> Throw(Error(<<prefix, "undefined">>))
      [] OTHER -> Throw(Error(<<prefix>> \o e.message))

\* A handler whose switch would stand outside any try/catch.
HandlerUncaught(v, outcome) ==
    IF outcome.kind = "throw"
    THEN [escaped |-> TRUE, env |-> NoEnvelope]
    ELSE [escaped |-> FALSE, env |-> outcome.env]

\* The try/catch of the CallToolRequestSchema handler around the switch.
Handler(v, outcome) ==
    IF outcome.kind = "throw"
    THEN [escaped |-> FALSE,
          env |-> errorContent(v, IF InstanceOfError(outcome.err)
                                   THEN outcome.err.message
                                   ELSE <<"Unknown error">>)]
    ELSE [escaped |-> FALSE, env |-> outcome.env]

----------------------------------------------------------------------------
\* Session Store.

Absent == [exists |-> FALSE, data |-> <<>>]
File(data) == [exists |-> TRUE, data |-> data]

RECURSIVE TrimStart(_)
TrimStart(s) == IF s # <<>> /\ Head(s) = " " THEN TrimStart(Tail(s)) ELSE s

RECURSIVE TrimEnd(_)
TrimEnd(s) ==
    IF s # <<>> /\ s[Len(s)] = " " THEN TrimEnd(SubSeq(s, 1, Len(s) - 1)) ELSE s

Trim(s) == TrimEnd(TrimStart(s))

\* A loadSession() that would not trim.
loadSessionUntrimmed(f) == IF f.exists THEN f.data ELSE <<>>

\* loadSession(): the trimmed file, '' when there is no file.
loadSession(f) == IF f.exists THEN Trim(f.data) ELSE <<>>

\* The credentials file holds JSON of a record, JSON of null, or no JSON.
CredentialsContents == {"record", "null", "garbage"}
NoCredentialsFile == [exists |-> FALSE, data |-> ""]
CredentialsFiles == {NoCredentialsFile} \cup {File(c) : c \in CredentialsContents}
\* The session file is empty, blank, or a token.
SessionContents == {<<>>, <<" ">>, <<"s">>}
SessionFiles == {Absent} \cup {File(d) : d \in SessionContents}

\* session.save() of a client that has signed in: a token, never empty.
SavedSession == <<"s">>

\* loadCredentials(): JSON.parse of the file; null when there is no file or
\* JSON.parse throws.
loadCredentials(f) ==
    IF f.exists /\ f.data = "record" THEN "record" ELSE "null"

----------------------------------------------------------------------------
\* The backend.

\* How an awaited backend call settles: it resolves, or it rejects with an
\* Error, with a value that is no Error, or with null.
BackendOutcomes == {"ok", "error", "string", "null"}

Rejection(o) ==
    CASE o = "error" -> Error(<<"FLOOD_WAIT">>)
      [] o = "string" -> ThrownString
      [] o = "null" -> ThrownNull

\* The TelegramClient objects constructed so far are 1..NumHandles.
NumHandles == Cardinality({h \in Handles : conn[h] # "none"})

\* Some client.connect() of this process has resolved.
EverConnected == \E h \in Handles : conn[h] \in {"open", "closed"}

----------------------------------------------------------------------------
\* Tool calls.

\* A suspended call is [pc, name, op, h, h1]: where it waits ("connect",
\* "backend", "entity", "messages"), the name it was called by, its adapter
\* operation, the handle its pending backend call was issued on, and for
\* getMessages the handle getEntity was issued on.
\* A response is [valid, name, op, bcalls, guard, failure, escaped, env]: the
\* name called, the adapter operation that ran ("none" for the default
\* branch), the backend calls the call issued, what its guard read in
\* this.client (-1 when it has no guard), whether it is a failure answer
\* (default branch, thrown exception, failed connect), whether an exception
\* left the handler, and the envelope returned.
NoResp == [valid |-> FALSE, name |-> "", op |-> "none",
           bcalls |-> 0, guard |-> -1, failure |-> FALSE, escaped |-> FALSE,
           env |-> NoEnvelope]

\* A handler's return and the sending of its envelope are one turn of the event
\* loop: no other callback runs while resp is waiting to be sent.
Running == proc = "running" /\ ~resp.valid
CanReceive == Running /\ transport = "open"

Suspended == BagToSet(calls)

\* An operation that would not test this.client.
NotConnectedNever(c) == FALSE

\* `!this.client`
NotConnected(c) == c = 0

\* The handler returns: `outcome` is what the adapter operation (or the default
\* branch) handed to the switch.
Answer(name, op, outcome, bcalls, guard, failure) ==
    resp' = [valid |-> TRUE, name |-> name, op |-> op,
             bcalls |-> bcalls, guard |-> guard, failure |-> failure,
             escaped |-> Handler(variant, outcome).escaped,
             env |-> Handler(variant, outcome).env]

\* The handler is suspended in adapter operation op on a backend call issued
\* on handle h.
Suspend(name, op, pc, h) ==
    /\ issued < MaxCalls
    /\ issued' = issued + 1
    /\ calls' = calls (+)
           SetToBag({[pc |-> pc, name |-> name, op |-> op, h |-> h, h1 |-> 0]})
    /\ resp' = NoResp

\* The suspended call c resumes.
Resume(c) ==
    /\ calls' = calls (-) SetToBag({c})
    /\ UNCHANGED issued

Frame == UNCHANGED <<variant, credentialsFile, sessionFile, transport, proc,
                     exitCode, sig, shutdownLog, fnArg, fnRet>>

\* default: return this.errorContent(`Unknown tool: ${name}`)
UnknownTool(name, args) ==
    /\ CanReceive
    /\ Route(variant, name) = "default"
    /\ Answer(name, "none", Return(errorContent(variant, <<"Unknown tool: ", name>>)),
              0, -1, TRUE)
    /\ UNCHANGED <<client, conn, calls, issued>>
    /\ Frame

\* The adapter operation of a case label.
Operation(label) ==
    CASE label = "auto_connect" -> "autoConnect"
      [] label = "connect_telegram" -> "connectTelegram"
      [] label = "get_dialogs" -> "getDialogs"
      [] label = "get_messages" -> "getMessages"
      [] label = "search_global" -> "searchGlobal"
      [] label = "get_me" -> "getMe"
      [] label = "send_telegram_message" -> "sendTelegramMessage"
      [] label = "get_telegram_updates" -> "getTelegramUpdates"
      [] label = "send_telegram_photo" -> "sendTelegramPhoto"

\* getDialogs, searchGlobal and getMe up to their backend call.  getMe takes no
\* arguments; the other two destructure args after the guard.
FetchStart(name, args) ==
    /\ CanReceive
    /\ Route(variant, name) \in {"get_dialogs", "search_global", "get_me"}
    /\ LET op == Operation(Route(variant, name))
       IN IF NotConnected(client)
          THEN /\ Answer(name, op, Throw(Error(NotConnectedMsg)), 0, client, TRUE)
               /\ UNCHANGED <<calls, issued>>
          ELSE IF op # "getMe" /\ args = "undefined"
          THEN /\ Answer(name, op, Throw(DestructureError), 0, client, TRUE)
               /\ UNCHANGED <<calls, issued>>
          ELSE Suspend(name, op, "backend", client)
    /\ UNCHANGED <<client, conn>>
    /\ Frame

FetchSuccess(op) ==
    CASE op = "getDialogs" -> Envelope(<<"JSON.stringify(dialogs)">>, "false")
      [] op = "searchGlobal" -> Envelope(<<"JSON.stringify(result)">>, "false")
      [] op = "getMe" -> Envelope(<<"JSON.stringify(me)">>, "false")

\* The backend call of getDialogs, searchGlobal or getMe settles.  Only
\* searchGlobal has a try/catch around its call.
FetchDone(c, o) ==
    /\ Running
    /\ c.pc = "backend"
    /\ c.op \in {"getDialogs", "searchGlobal", "getMe"}
    /\ LET outcome == IF o = "ok" THEN Return(FetchSuccess(c.op))
                      ELSE IF c.op = "searchGlobal"
                      THEN Rethrow("Search failed: ", Rejection(o))
                      ELSE Throw(Rejection(o))
       IN Answer(c.name, c.op, outcome, 1, c.h, o # "ok")
    /\ Resume(c)
    /\ UNCHANGED <<client, conn>>
    /\ Frame

\* getMessages up to `await this.client.getEntity(entityId)`.
GetMessagesStart(name, args) ==
    /\ CanReceive
    /\ Route(variant, name) = "get_messages"
    /\ IF NotConnected(client)
       THEN /\ Answer(name, "getMessages", Throw(Error(NotConnectedMsg)), 0, client, TRUE)
            /\ UNCHANGED <<calls, issued>>
       ELSE IF args = "undefined"
       THEN /\ Answer(name, "getMessages", Throw(DestructureError), 0, client, TRUE)
            /\ UNCHANGED <<calls, issued>>
       ELSE Suspend(name, "getMessages", "entity", client)
    /\ UNCHANGED <<client, conn>>
    /\ Frame

\* getEntity settles; when it resolves, `this.client.getMessages(...)` reads
\* this.client again and issues the fetch on whatever handle it holds now.
GetMessagesEntityDone(c, o) ==
    /\ Running
    /\ c.pc = "entity"
    /\ IF o = "ok"
       THEN /\ calls' = (calls (-) SetToBag({c})) (+)
                            SetToBag({[c EXCEPT !.pc = "messages", !.h = client, !.h1 = c.h]})
            /\ resp' = NoResp
            /\ UNCHANGED issued
       ELSE /\ Answer(c.name, c.op, Rethrow("Could not get messages: ", Rejection(o)),
                      1, c.h, TRUE)
            /\ Resume(c)
    /\ UNCHANGED <<client, conn>>
    /\ Frame

GetMessagesDone(c, o) ==
    /\ Running
    /\ c.pc = "messages"
    /\ LET outcome == IF o = "ok"
                      THEN Return(Envelope(<<"JSON.stringify(messages)">>, "absent"))
                      ELSE Rethrow("Could not get messages: ", Rejection(o))
       IN Answer(c.name, c.op, outcome, 2, c.h1, o # "ok")
    /\ Resume(c)
    /\ UNCHANGED <<client, conn>>
    /\ Frame

\* this.client = new TelegramClient(...): a fresh handle replaces the old one,
\* which is not disconnected.
NewClient(h) ==
    /\ h \in Handles
    /\ client' = h
    /\ conn' = [conn EXCEPT ![h] = "connecting"]

\* connectTelegram up to `await this.client.connect()`.
ConnectTelegramStart(name, args) ==
    /\ CanReceive
    /\ Route(variant, name) = "connect_telegram"
    /\ IF args = "undefined"
       THEN /\ Answer(name, "connectTelegram", Throw(DestructureError), 0, -1, TRUE)
            /\ UNCHANGED <<client, conn, calls, issued>>
       ELSE /\ NewClient(NumHandles + 1)
            /\ Suspend(name, "connectTelegram", "connect", NumHandles + 1)
    /\ Frame

\* A connect-class operation that would save the session once connected.
ConnectTelegramDoneSavingSession(c, o) ==
    /\ Running
    /\ c.pc = "connect"
    /\ c.op = "connectTelegram"
    /\ Answer(c.name, c.op,
              Return(Envelope(IF o = "ok" THEN ConnectedText ELSE ConnectFailedText, "absent")),
              1, -1, o # "ok")
    /\ conn' = [conn EXCEPT ![c.h] = IF o = "ok" THEN "open" ELSE "failed"]
    /\ Resume(c)
    /\ sessionFile' = IF o = "ok" THEN File(SavedSession) ELSE sessionFile
    /\ UNCHANGED <<client, variant, credentialsFile, transport, proc, exitCode, sig,
                   shutdownLog, fnArg, fnRet>>

\* connect() settles: connectTelegram returns an envelope either way.
ConnectTelegramDone(c, o) ==
    /\ Running
    /\ c.pc = "connect"
    /\ c.op = "connectTelegram"
    /\ Answer(c.name, c.op,
              Return(Envelope(IF o = "ok" THEN ConnectedText ELSE ConnectFailedText, "absent")),
              1, -1, o # "ok")
    /\ conn' = [conn EXCEPT ![c.h] = IF o = "ok" THEN "open" ELSE "failed"]
    /\ Resume(c)
    /\ UNCHANGED client
    /\ Frame

\* autoConnect up to `await this.client.connect()`.
AutoConnectStart(name, args) ==
    /\ CanReceive
    /\ Route(variant, name) = "auto_connect"
    /\ IF loadCredentials(credentialsFile) = "null"
       THEN /\ Answer(name, "autoConnect", Throw(Error(NoCredentialsMsg)), 0, -1, TRUE)
            /\ UNCHANGED <<client, conn, calls, issued>>
       ELSE IF loadSession(sessionFile) = <<>>
       THEN /\ Answer(name, "autoConnect", Throw(Error(NoSessionMsg)), 0, -1, TRUE)
            /\ UNCHANGED <<client, conn, calls, issued>>
       ELSE /\ NewClient(NumHandles + 1)
            /\ Suspend(name, "autoConnect", "connect", NumHandles + 1)
    /\ Frame

AutoConnectDone(c, o) ==
    /\ Running
    /\ c.pc = "connect"
    /\ c.op = "autoConnect"
    /\ LET outcome == IF o = "ok" THEN Return(Envelope(AutoConnectedText, "absent"))
                      ELSE Rethrow("Auto-connection failed: ", Rejection(o))
       IN Answer(c.name, c.op, outcome, 1, -1, o # "ok")
    /\ conn' = [conn EXCEPT ![c.h] = IF o = "ok" THEN "open" ELSE "failed"]
    /\ Resume(c)
    /\ UNCHANGED client
    /\ Frame

\* sendTelegramMessage, getTelegramUpdates and sendTelegramPhoto up to their
\* backend call: each destructures args first; none has a connection guard.
BotStart(name, args) ==
    /\ CanReceive
    /\ Route(variant, name) \in BotTools
    /\ LET op == Operation(Route(variant, name))
       IN IF args = "undefined"
          THEN /\ Answer(name, op, Throw(DestructureError), 0, -1, TRUE)
               /\ UNCHANGED <<calls, issued>>
          ELSE Suspend(name, op, "backend", 0)
    /\ UNCHANGED <<client, conn>>
    /\ Frame

BotSuccess(op) ==
    CASE op = "sendTelegramMessage" ->
            Envelope(<<"Message sent successfully! Message ID: ", "message_id">>, "absent")
      [] op = "getTelegramUpdates" -> Envelope(<<"JSON.stringify(updates)">>, "absent")
      [] op = "sendTelegramPhoto" ->
            Envelope(<<"Photo sent successfully! Message ID: ", "message_id">>, "absent")

\* The bot call settles; no operation of this server catches its rejection.
BotDone(c, o) ==
    /\ Running
    /\ c.pc = "backend"
    /\ c.op \in {"sendTelegramMessage", "getTelegramUpdates", "sendTelegramPhoto"}
    /\ LET outcome == IF o = "ok" THEN Return(BotSuccess(c.op)) ELSE Throw(Rejection(o))
       IN Answer(c.name, c.op, outcome, 1, -1, o # "ok")
    /\ Resume(c)
    /\ UNCHANGED <<client, conn>>
    /\ Frame

\* The server sends the envelope the handler returned.
Send ==
    /\ resp.valid
    /\ resp' = NoResp
    /\ UNCHANGED <<client, conn, calls, issued>>
    /\ Frame

----------------------------------------------------------------------------
\* Process lifecycle.

\* run(): this.server.connect(transport)
Run ==
    /\ Running
    /\ transport = "init"
    /\ transport' = "open"
    /\ resp' = NoResp
    /\ UNCHANGED <<variant, credentialsFile, sessionFile, client, conn, calls, issued,
                   proc, exitCode, sig, shutdownLog, fnArg, fnRet>>

SigIdle == [pc |-> "idle", h |-> 0]
IdleSigs == {i \in 1..MaxSigints : sig[i].pc = "idle"}

\* `await this.server.close(); process.exit(0)`: the stdio transport closes
\* without waiting on I/O, so nothing runs between the two.
CloseAndExit(i, log) ==
    /\ transport' = "closed"
    /\ shutdownLog' = Append(log, "transport")
    /\ proc' = "exited"
    /\ exitCode' = 0
    /\ sig' = [sig EXCEPT ![i] = [pc |-> "exited", h |-> sig[i].h]]

\* SIGINT arrives: the chat readers first await this.client.disconnect() when
\* this.client is set; the bot server has no connection to close.
Sigint ==
    /\ Running
    /\ IdleSigs # {}
    /\ LET i == CHOOSE x \in IdleSigs : \A y \in IdleSigs : x <= y
       IN IF variant # "bot" /\ client # 0
          THEN /\ sig' = [sig EXCEPT ![i] = [pc |-> "disconnect", h |-> client]]
               /\ UNCHANGED <<transport, shutdownLog, proc, exitCode>>
          ELSE CloseAndExit(i, shutdownLog)
    /\ resp' = NoResp
    /\ UNCHANGED <<variant, credentialsFile, sessionFile, client, conn, calls, issued,
                   fnArg, fnRet>>

\* disconnect() settles.  When it rejects, the async SIGINT listener rejects:
\* server.close() and process.exit(0) are never reached.
SigintDisconnectDone(i, o) ==
    /\ Running
    /\ sig[i].pc = "disconnect"
    /\ IF o = "ok"
       THEN /\ conn' = [conn EXCEPT ![sig[i].h] =
                            IF @ = "open" THEN "closed" ELSE "dropped"]
            /\ CloseAndExit(i, Append(shutdownLog, "disconnect"))
       ELSE /\ sig' = [sig EXCEPT ![i] = [pc |-> "rejected", h |-> sig[i].h]]
            /\ UNCHANGED <<conn, transport, shutdownLog, proc, exitCode>>
    /\ resp' = NoResp
    /\ UNCHANGED <<variant, credentialsFile, sessionFile, client, calls, issued,
                   fnArg, fnRet>>

\* The rejected listener promise is an unhandled rejection: Node.js 15 and later
\* end the process with status 1, earlier versions warn and go on (no step).
UnhandledRejection ==
    /\ Running
    /\ \E i \in 1..MaxSigints : sig[i].pc = "rejected"
    /\ proc' = "exited"
    /\ exitCode' = 1
    /\ resp' = NoResp
    /\ UNCHANGED <<variant, credentialsFile, sessionFile, client, conn, calls, issued,
                   transport, sig, shutdownLog, fnArg, fnRet>>

\* No adapter operation is studied alone.
NoArg == [fn |-> "none"]
NoRet == [done |-> FALSE]

\* The ListToolsRequestSchema handler returns the static tools array,
\* ListedTools(variant), and touches nothing.
ListTools ==
    /\ CanReceive
    /\ UNCHANGED vars

----------------------------------------------------------------------------
\* The authentication script, a process of its own beside the server.

\* fs.writeFileSync('./telegram_session.txt', sessionString), reached when
\* client.start() has resolved and sessionString is not empty.
AuthSaveSession ==
    /\ sessionFile' = File(SavedSession)
    /\ UNCHANGED <<variant, credentialsFile, client, conn, calls, issued, resp,
                   transport, proc, exitCode, sig, shutdownLog, fnArg, fnRet>>

\* fs.writeFileSync('./telegram_credentials.json', JSON.stringify(credentials)),
\* which follows the write of the session file.
AuthSaveCredentials ==
    /\ sessionFile = File(SavedSession)
    /\ credentialsFile' = File("record")
    /\ UNCHANGED <<variant, sessionFile, client, conn, calls, issued, resp,
                   transport, proc, exitCode, sig, shutdownLog, fnArg, fnRet>>

----------------------------------------------------------------------------
\* The state once the constructor has run, before run() binds the transport.
\* The two files are whatever earlier runs of the authentication script, or
\* none, have left.
Constructed ==
    /\ client = 0
    /\ conn = [h \in Handles |-> "none"]
    /\ calls = EmptyBag
    /\ issued = 0
    /\ resp = NoResp
    /\ transport = "init"
    /\ proc = "running"
    /\ exitCode = -1
    /\ sig = [i \in 1..MaxSigints |-> SigIdle]
    /\ shutdownLog = <<>>

Init ==
    /\ variant \in Variants
    /\ credentialsFile \in CredentialsFiles
    /\ sessionFile \in SessionFiles
    /\ Constructed
    /\ fnArg = NoArg
    /\ fnRet = NoRet

Next ==
    \/ Run
    \/ \E name \in ToolNames, args \in ArgsValues : UnknownTool(name, args)
    \/ \E name \in ToolNames, args \in ArgsValues : FetchStart(name, args)
    \/ \E c \in Suspended, o \in BackendOutcomes : FetchDone(c, o)
    \/ \E name \in ToolNames, args \in ArgsValues : GetMessagesStart(name, args)
    \/ \E c \in Suspended, o \in BackendOutcomes : GetMessagesEntityDone(c, o)
    \/ \E c \in Suspended, o \in BackendOutcomes : GetMessagesDone(c, o)
    \/ \E name \in ToolNames, args \in ArgsValues : ConnectTelegramStart(name, args)
    \/ \E c \in Suspended, o \in BackendOutcomes : ConnectTelegramDone(c, o)
    \/ \E name \in ToolNames, args \in ArgsValues : AutoConnectStart(name, args)
    \/ \E c \in Suspended, o \in BackendOutcomes : AutoConnectDone(c, o)
    \/ \E name \in ToolNames, args \in ArgsValues : BotStart(name, args)
    \/ \E c \in Suspended, o \in BackendOutcomes : BotDone(c, o)
    \/ Send
    \/ Sigint
    \/ \E i \in 1..MaxSigints, o \in {"ok", "error"} : SigintDisconnectDone(i, o)
    \/ UnhandledRejection
    \/ ListTools
    \/ AuthSaveSession
    \/ AuthSaveCredentials

Spec == Init /\ [][Next]_vars

----------------------------------------------------------------------------
\* Adapter operations studied alone: Init draws what the operation is handed
\* (its arguments, or what the backend returned), one action applies the
\* operation's own code to it.

\* Bounds of these inputs.
MaxLimit == 101    \* the largest limit a caller passes
MaxMessages == 2   \* messages the backend returns to one getMessages
MaxDialogs == 2    \* conversations the backend returns to one getDialogs

\* JavaScript values.
Undefined == [t |-> "undefined", v |-> <<>>]
Null == [t |-> "null", v |-> <<>>]
Str(s) == [t |-> "string", v |-> s]
Obj(keys) == [t |-> "object", v |-> keys]

DigitChars == <<"0", "1", "2", "3", "4", "5", "6", "7", "8", "9">>

\* n.toString() of a non-negative integer: its decimal digits.
RECURSIVE toString(_)
toString(n) ==
    IF n < 10 THEN <<DigitChars[n + 1]>>
    ELSE toString(n \div 10) \o <<DigitChars[(n % 10) + 1]>>

\* JSON.stringify of an object leaves out the keys whose value is undefined;
\* a null value is written as null.  The result is what a caller parses back.
JsonObject(obj) ==
    [k \in {x \in DOMAIN obj : obj[x].t # "undefined"} |-> obj[k]]

\* The ids the backend's objects carry.
SampleIds == {0, 42, 555}

SeqsUpTo(S, n) == UNION {[1..k -> S] : k \in 0..n}

Rest ==
    UNCHANGED <<variant, credentialsFile, sessionFile, client, conn, calls, issued,
                resp, transport, proc, exitCode, sig, shutdownLog, fnArg>>

\* --- getTelegramUpdates: from args.limit to the limit of bot.getUpdates.

DefaultUpdatesLimit == 10
SchemaMinimum == 1
SchemaMaximum == 100

\* args.limit: not given, or a number.
NotGiven == [given |-> FALSE, value |-> 0]
Given(n) == [given |-> TRUE, value |-> n]
LimitArgs == {NotGiven} \cup {Given(n) : n \in 0..MaxLimit}

\* `const {limit = 10} = args; ... this.bot.getUpdates({limit})`: the default
\* stands in for a limit not given, and a given limit is passed on as it is.
getTelegramUpdatesLimit(limit) ==
    IF limit.given THEN limit.value ELSE DefaultUpdatesLimit

GetTelegramUpdatesCall ==
    /\ fnArg.fn = "getTelegramUpdates"
    /\ ~fnRet.done
    /\ fnRet' = [done |-> TRUE, value |-> getTelegramUpdatesLimit(fnArg.arg)]
    /\ Rest

\* --- getMessages: from the backend's messages to the JSON text.

\* msg.fromId: a PeerUser, a PeerChat, a PeerChannel, or undefined.
PeerUser(id) == [cls |-> "PeerUser", userId |-> id]
PeerChat(id) == [cls |-> "PeerChat", chatId |-> id]
PeerChannel(id) == [cls |-> "PeerChannel", channelId |-> id]
NoPeer == [cls |-> "undefined"]
Peers ==
    {NoPeer} \cup {PeerUser(id) : id \in SampleIds}
             \cup {PeerChat(id) : id \in SampleIds}
             \cup {PeerChannel(id) : id \in SampleIds}

\* A message of the backend: its fromId, and whether it has a sender.
Messages == [fromId : Peers, sender : BOOLEAN]

\* A fromId that would take the id of whatever peer it is given.
fromIdOfAnyPeer(fromId) ==
    CASE fromId.cls = "PeerUser" -> Str(toString(fromId.userId))
      [] fromId.cls = "PeerChat" -> Str(toString(fromId.chatId))
      [] fromId.cls = "PeerChannel" -> Str(toString(fromId.channelId))
      [] OTHER -> Undefined

\* `(msg.fromId as PeerUser)?.userId?.toString()`: the cast checks nothing at
\* run time; a missing fromId, or a peer with no userId, gives undefined.
fromIdOf(fromId) ==
    IF fromId.cls = "undefined" THEN Undefined
    ELSE IF "userId" \notin DOMAIN fromId THEN Undefined
    ELSE Str(toString(fromId.userId))

\* The object messages.map builds of one message (of its keys, fromId and
\* sender; the others copy fields of the message).
MessageSummary(msg) ==
    [fromId |-> fromIdOf(msg.fromId),
     sender |-> IF msg.sender THEN Obj(<<"firstName", "lastName", "username">>)
                ELSE Null]

\* JSON.stringify(messages.map(...)).
getMessagesResult(messages) ==
    [i \in 1..Len(messages) |-> JsonObject(MessageSummary(messages[i]))]

GetMessagesMap ==
    /\ fnArg.fn = "getMessages"
    /\ ~fnRet.done
    /\ fnRet' = [done |-> TRUE, value |-> getMessagesResult(fnArg.arg)]
    /\ Rest

\* --- getDialogs: from the backend's dialogs to the JSON text.

\* The class of dialog.entity: the three the operation tests for, another
\* class of the backend (a group or channel the account may no longer read),
\* or no entity.
EntityClasses == {"User", "Chat", "Channel", "ChatForbidden", "undefined"}

\* A dialog of the backend: its id, its entity, and whether it has a message.
Dialogs == [id : SampleIds, entity : EntityClasses, message : BOOLEAN]

\* An if-chain that would file a Channel under chat.
DetailKeyChannelAsChat(entity) ==
    CASE entity = "User" -> "user"
      [] entity = "Chat" -> "chat"
      [] entity = "Channel" -> "chat"
      [] OTHER -> "none"

\* The if / else if / else if on `entity instanceof`: the key the detail
\* object is stored under; there is no final else.
DetailKey(entity) ==
    CASE entity = "User" -> "user"
      [] entity = "Chat" -> "chat"
      [] entity = "Channel" -> "channel"
      [] OTHER -> "none"

\* The fields each detail object copies from the entity.
DetailFields(key) ==
    CASE key = "user" -> <<"firstName", "lastName", "username", "phone">>
      [] key = "chat" -> <<"title", "participantsCount">>
      [] key = "channel" -> <<"title", "username", "participantsCount">>

\* chatInfo of one dialog (of the keys copied from the dialog, its id).
DialogSummary(dialog) ==
    LET key == DetailKey(dialog.entity)
        Detail(k) == IF key = k THEN Obj(DetailFields(k)) ELSE Undefined
    IN [id |-> Str(toString(dialog.id)),
        user |-> Detail("user"),
        chat |-> Detail("chat"),
        channel |-> Detail("channel"),
        lastMessage |-> IF dialog.message THEN Obj(<<"id", "message", "date">>)
                        ELSE Undefined]

\* JSON.stringify(dialogs.map(...)).
getDialogsResult(dialogs) ==
    [i \in 1..Len(dialogs) |-> JsonObject(DialogSummary(dialogs[i]))]

GetDialogsMap ==
    /\ fnArg.fn = "getDialogs"
    /\ ~fnRet.done
    /\ fnRet' = [done |-> TRUE, value |-> getDialogsResult(fnArg.arg)]
    /\ Rest

\* --- The specification of the three.

\* What an operation is handed: the args of a get_telegram_updates call, or
\* what the backend returned to getMessages or getDialogs.
FnArgs ==
         {[fn |-> "getTelegramUpdates", arg |-> l] : l \in LimitArgs}
    \cup {[fn |-> "getMessages", arg |-> m] : m \in SeqsUpTo(Messages, MaxMessages)}
    \cup {[fn |-> "getDialogs", arg |-> d] : d \in SeqsUpTo(Dialogs, MaxDialogs)}

\* The servers that have the operation.
ServersWith(fn) ==
    IF fn = "getTelegramUpdates" THEN {"bot"} ELSE {"cr1", "cr2"}

MapInit ==
    /\ fnArg \in FnArgs
    /\ fnRet = NoRet
    /\ variant \in ServersWith(fnArg.fn)
    /\ credentialsFile = NoCredentialsFile
    /\ sessionFile = Absent
    /\ Constructed

MapNext ==
    \/ GetTelegramUpdatesCall
    \/ GetMessagesMap
    \/ GetDialogsMap

MapSpec == MapInit /\ [][MapNext]_vars

----------------------------------------------------------------------------
\* A chat reader taken up once it is connected: a connect_telegram call has
\* constructed the first TelegramClient, its connect() has resolved and its
\* answer has been sent.  MaxCalls counts the calls from there on; the steps
\* are those of get_messages and of the connect-class tools.

ConnectedInit ==
    /\ variant \in {"cr1", "cr2"}
    /\ credentialsFile \in CredentialsFiles
    /\ sessionFile \in SessionFiles
    /\ client = 1
    /\ conn = [h \in Handles |-> IF h = 1 THEN "open" ELSE "none"]
    /\ calls = EmptyBag
    /\ issued = 0
    /\ resp = NoResp
    /\ transport = "open"
    /\ proc = "running"
    /\ exitCode = -1
    /\ sig = [i \in 1..MaxSigints |-> SigIdle]
    /\ shutdownLog = <<>>
    /\ fnArg = NoArg
    /\ fnRet = NoRet

ConnectedNext ==
    \/ \E name \in ToolNames, args \in ArgsValues : GetMessagesStart(name, args)
    \/ \E c \in Suspended, o \in BackendOutcomes : GetMessagesEntityDone(c, o)
    \/ \E c \in Suspended, o \in BackendOutcomes : GetMessagesDone(c, o)
    \/ \E name \in ToolNames, args \in ArgsValues : ConnectTelegramStart(name, args)
    \/ \E c \in Suspended, o \in BackendOutcomes : ConnectTelegramDone(c, o)
    \/ \E name \in ToolNames, args \in ArgsValues : AutoConnectStart(name, args)
    \/ \E c \in Suspended, o \in BackendOutcomes : AutoConnectDone(c, o)
    \/ Send

ConnectedSpec == ConnectedInit /\ [][ConnectedNext]_vars

----------------------------------------------------------------------------
\* Reading a response.

Text(r) == r.env.content[1].text
OneText(env) == Len(env.content) = 1 /\ env.content[1].type = "text"
IsNotConnected(r) == OneText(r.env) /\ Contains(Text(r), <<"Not connected">>)
IsUnknownTool(r) == OneText(r.env) /\ Contains(Text(r), <<"Unknown tool: ">>)
IsErrorText(r) == OneText(r.env) /\ Text(r)[1] = "Error: "

\* The persisted artifacts autoConnect needs.
CredentialsMissing ==
    ~credentialsFile.exists \/ credentialsFile.data \in {"garbage", "null"}
SessionMissing ==
    ~sessionFile.exists \/ \A i \in 1..Len(sessionFile.data) : sessionFile.data[i] = " "

----------------------------------------------------------------------------
\* C1: a data-fetching tool answered while no connect-class call has yet
\* completed successfully answers "Not connected".  Stated as the claim has it;
\* the code assigns this.client before connect() settles, so the guard passes
\* after a connect attempt that failed.
C1_NotConnectedUntilConnectSucceeds ==
    (resp.valid /\ resp.name \in DataTools /\ resp.op # "none" /\ ~EverConnected)
        => IsNotConnected(resp)

\* The answer to a name outside the static registry.
C2_UnknownToolAnswer ==
    (resp.valid /\ resp.name \notin ListedTools(variant))
        => /\ IsErrorText(resp)
           /\ Contains(Text(resp), <<"Unknown tool: ", resp.name>>)
           /\ resp.op = "none"
           /\ resp.bcalls = 0

\* What the step that answers such a name leaves alone.
C2_UnknownToolFrame ==
    (resp'.valid /\ resp'.name \notin ListedTools(variant))
        => /\ client' = client
           /\ conn' = conn
           /\ calls' = calls
           /\ issued' = issued

\* C2: a name outside the static registry is answered with the error envelope
\* "Unknown tool: <that name>", no adapter operation runs and no backend call
\* is made for it, and the step that answers it leaves the connection handle,
\* the backend connections and the suspended calls as they were.
C2_UnknownTool == [](C2_UnknownToolAnswer) /\ [][C2_UnknownToolFrame]_vars

\* "GET_ME" is answered while a handle is set and a call is suspended.

C2_Witness ==
    /\ resp.valid
    /\ resp.name = "GET_ME"
    /\ variant = "cr1"
    /\ client # 0
    /\ calls # EmptyBag

\* C3: no name that listTools returns is answered "Unknown tool".  Stated as the
\* claim has it; the second chat reader lists auto_connect and has no case for it.
C3_ListedToolsAreRouted ==
    (resp.valid /\ resp.name \in ListedTools(variant)) => ~IsUnknownTool(resp)

\* The answer of a data-fetching operation whose guard read null.
C4_NotConnectedAnswer ==
    (resp.valid /\ resp.op \in {"getDialogs", "getMessages", "searchGlobal", "getMe"}
        /\ resp.guard = 0)
        => /\ IsErrorText(resp)
           /\ IsNotConnected(resp)
           /\ resp.bcalls = 0
           /\ client = 0

\* No data-fetching call is suspended on a backend call issued with no handle.
C4_NoCallWithoutHandle ==
    \A c \in Suspended :
        c.op \in {"getDialogs", "getMessages", "searchGlobal", "getMe"}
            => c.h # 0 /\ (c.pc = "messages" => c.h1 # 0)

\* A data-fetching operation answering while this.client is null changes nothing.
C4_NotConnectedFrame ==
    (client = 0 /\ resp'.valid
        /\ resp'.op \in {"getDialogs", "getMessages", "searchGlobal", "getMe"})
        => /\ client' = 0
           /\ conn' = conn
           /\ calls' = calls
           /\ issued' = issued
           /\ IsNotConnected(resp')

\* C4: while this.client is null each data-fetching tool answers "Not
\* connected", makes no backend call, and leaves this.client null.
C4_NotConnected ==
    /\ [](C4_NotConnectedAnswer /\ C4_NoCallWithoutHandle)
    /\ [][C4_NotConnectedFrame]_vars

\* get_messages is answered "Not connected" with no handle set.
C4_Witness ==
    /\ resp.valid
    /\ resp.name = "get_messages"
    /\ resp.guard = 0
    /\ IsNotConnected(resp)

\* C5: every answer is an envelope of exactly one content element of type
\* "text", and no exception leaves the handler, whatever the name, the
\* arguments and the backend outcome.
C5_AlwaysOneTextEnvelope ==
    resp.valid => ~resp.escaped /\ OneText(resp.env)

\* getMe's backend call rejected with a value that is no Error, and the
\* handler answered "Unknown error".
C5_Witness ==
    /\ resp.valid
    /\ resp.op = "getMe"
    /\ resp.bcalls = 1
    /\ resp.failure
    /\ Text(resp) = <<"Error: ", "Unknown error">>

\* C6: an answer has isError true exactly when it is a failure answer.  Stated
\* as the claim has it; errorContent sets isError false in the chat readers
\* and leaves it out in the bot server.
C6_FailuresAreFlagged ==
    resp.valid => (resp.failure <=> resp.env.isError = "true")

\* C7: at most one backend connection this process opened is still open.
\* Stated as the claim has it; a connect-class call replaces this.client
\* without disconnecting the client it held.
C7_AtMostOneLiveConnection ==
    Cardinality({h \in Handles : conn[h] = "open"}) <= 1

\* C8: a SIGINT handler that has run to its end has exited the process with
\* status 0, after closing the connection it found and then the transport.
\* Stated as the claim has it; when disconnect() rejects the handler ends
\* without closing the transport or exiting.
C8_SigintExitsZero ==
    \A i \in 1..MaxSigints :
        sig[i].pc \in {"exited", "rejected"}
            => /\ proc = "exited"
               /\ exitCode = 0
               /\ transport = "closed"
               /\ shutdownLog[Len(shutdownLog)] = "transport"
               /\ sig[i].h # 0 => shutdownLog = <<"disconnect", "transport">>

\* The answer of autoConnect names the first artifact it misses.
C9_MissingArtifactAnswer ==
    (resp.valid /\ resp.op = "autoConnect")
        => /\ CredentialsMissing
                => /\ IsErrorText(resp)
                   /\ Contains(Text(resp), <<"No saved credentials found">>)
                   /\ resp.bcalls = 0
           /\ (~CredentialsMissing /\ SessionMissing)
                => /\ IsErrorText(resp)
                   /\ Contains(Text(resp), <<"No saved session found">>)
                   /\ resp.bcalls = 0

\* No autoConnect is suspended on connect() while an artifact is missing.
C9_NoConnectAttempt ==
    (CredentialsMissing \/ SessionMissing)
        => \A c \in Suspended : c.op # "autoConnect"

\* autoConnect answering with an artifact missing changes nothing.
C9_MissingArtifactFrame ==
    (resp'.valid /\ resp'.op = "autoConnect" /\ (CredentialsMissing \/ SessionMissing))
        => /\ client' = client
           /\ conn' = conn
           /\ calls' = calls
           /\ issued' = issued

C10_AutoConnectToolSucceeds ==
    (resp.valid /\ resp.name = "auto_connect" /\ variant \in {"cr1", "cr2"}
        /\ ~CredentialsMissing /\ ~SessionMissing
        /\ ~(resp.bcalls = 1 /\ resp.failure))
        => /\ resp.env = Envelope(AutoConnectedText, "absent")
           /\ client # 0

----------------------------------------------------------------------------
\* Retry after a failed connect.

ConnectOps == {"connectTelegram", "autoConnect"}

\* A connect() issued by connectTelegram has rejected: some connect() has
\* rejected, and autoConnect, which attempts none without both artifacts and
\* does not exist in the second chat reader, cannot have issued it.
ConnectTelegramHasFailed ==
    /\ \E h \in Handles : conn[h] = "failed"
    /\ \/ Route(variant, "auto_connect") = "default"
       \/ CredentialsMissing
       \/ SessionMissing

\* The data-fetching tools are usable: this.client holds a client whose
\* connect() has resolved.
DataToolsUsable == client # 0 /\ conn[client] = "open"

\* A failed connect inside connectTelegram is answered with the failure text,
\* not through the handler's catch, and the process goes on.
C11_FailureIsAnEnvelope ==
    (resp.valid /\ resp.op = "connectTelegram" /\ resp.bcalls = 1 /\ resp.failure)
        => /\ resp.env = Envelope(ConnectFailedText, "absent")
           /\ ~IsErrorText(resp)
           /\ ~resp.escaped
           /\ proc = "running"
           /\ transport = "open"

----------------------------------------------------------------------------
\* The persisted artifacts and the server.

ServerVars == <<variant, client, conn, calls, issued, resp, transport, proc,
                exitCode, sig, shutdownLog>>

\* A step that changes either file changes nothing of the server process: it
\* is no startup, tool call, listing, response or shutdown step.
C12_OnlyOutsideTheServer ==
    (credentialsFile' # credentialsFile \/ sessionFile' # sessionFile)
        => UNCHANGED ServerVars

\* A step that changes either file is a write of the authentication script.
C12_OnlyTheAuthenticationScript ==
    /\ sessionFile' # sessionFile => sessionFile' = File(SavedSession)
    /\ credentialsFile' # credentialsFile
            => credentialsFile' = File("record") /\ sessionFile = File(SavedSession)

\* C12: no step of the server process (startup, tool calls, listings,
\* responses, SIGINT shutdown) changes the credentials file or the session
\* file; the only steps that change them are the two writes of the
\* authentication script.
C12_ServerNeverWritesArtifacts ==
    [][C12_OnlyOutsideTheServer /\ C12_OnlyTheAuthenticationScript]_vars

\* The server has started, connected, answered and shut down on SIGINT, and a
\* blank session file and an unparsable credentials file are still what they
\* were.
C12_Witness ==
    /\ proc = "exited"
    /\ shutdownLog = <<"disconnect", "transport">>
    /\ \E h \in Handles : conn[h] = "closed"
    /\ issued = MaxCalls
    /\ sessionFile = File(<<" ">>)
    /\ credentialsFile = File("garbage")

----------------------------------------------------------------------------
\* Backend failures.

\* The adapter operations whose backend calls the claim is about.
WrappingOps == {"getDialogs", "getMessages", "searchGlobal", "getMe", "autoConnect",
                "sendTelegramMessage", "sendTelegramPhoto", "getTelegramUpdates"}

\* The prefixes the catch blocks of the adapter operations put before a
\* backend message.
OperationPrefixes ==
    {"Could not get messages: ", "Search failed: ", "Auto-connection failed: "}

\* The answer the handler's catch alone makes of a backend Error.
UnmodifiedBackendError == <<"Error: ">> \o Rejection("error").message

\* C13: the answer to a call whose backend call failed with an Error is an
\* error envelope whose message starts with a prefix naming the operation, and
\* is never the backend's own message.  Stated as the claim has it; getDialogs, getMe and
\* the three bot operations have no catch of their own, so their backend
\* errors reach the handler's catch as they are.
C13_BackendFailuresArePrefixed ==
    (resp.valid /\ resp.op \in WrappingOps /\ resp.bcalls >= 1 /\ resp.failure
        /\ Contains(Text(resp), Rejection("error").message))
        => /\ IsErrorText(resp)
           /\ Len(Text(resp)) >= 2
           /\ Text(resp)[2] \in OperationPrefixes
           /\ Text(resp) # UnmodifiedBackendError

----------------------------------------------------------------------------
\* The limit of get_telegram_updates.

\* C14: the limit getTelegramUpdates hands to bot.getUpdates is 10 when the
\* caller gives none, and lies between the schema's minimum and maximum, 1 and
\* 100, whatever limit the caller gives.  Stated as the claim has it; the
\* operation passes a given limit on without comparing it with anything.
C14_LimitWithinSchema ==
    (fnRet.done /\ fnArg.fn = "getTelegramUpdates")
        => /\ ~fnArg.arg.given => fnRet.value = 10
           /\ fnRet.value >= SchemaMinimum
           /\ fnRet.value <= SchemaMaximum

----------------------------------------------------------------------------
\* The fromId of get_messages.

\* The number a string of decimal digits writes.
RECURSIVE ParseDecimal(_)
ParseDecimal(digits) ==
    IF digits = <<>> THEN 0
    ELSE LET last == digits[Len(digits)]
             d == CHOOSE x \in 0..9 : DigitChars[x + 1] = last
         IN ParseDecimal(SubSeq(digits, 1, Len(digits) - 1)) * 10 + d

IsPerson(peer) == peer.cls = "PeerUser"

\* fromId is a string of decimal digits that write the sender's id.
FromIdIsTheSendersId(o, peer) ==
    /\ "fromId" \in DOMAIN o
    /\ o.fromId.t = "string"
    /\ o.fromId.v # <<>>
    /\ \A j \in 1..Len(o.fromId.v) : \E x \in 0..9 : DigitChars[x + 1] = o.fromId.v[j]
    /\ ParseDecimal(o.fromId.v) = peer.userId
    /\ peer.userId = 555 => o.fromId.v = <<"5", "5", "5">>

\* C15 as it stands: in every message of the answer of get_messages,
\* fromId is the sender's id as a string when the message's fromId is a
\* PeerUser, and null otherwise.
C15_FromIdStringOrNull ==
    (fnRet.done /\ fnArg.fn = "getMessages")
        => \A i \in 1..Len(fnArg.arg) :
              LET peer == fnArg.arg[i].fromId
                  o == fnRet.value[i]
              IN IF IsPerson(peer)
                 THEN FromIdIsTheSendersId(o, peer)
                 ELSE "fromId" \in DOMAIN o /\ o.fromId = Null

\* C15, amended: the answer of get_messages has one object per message of the
\* backend, in order; its fromId is the sender's id as a string of decimal
\* digits when the message's fromId is a PeerUser, and the object has no
\* fromId key at all (not even null) when the fromId is another kind of peer
\* or missing.
C15_FromIdStringOrAbsent ==
    (fnRet.done /\ fnArg.fn = "getMessages")
        => /\ Len(fnRet.value) = Len(fnArg.arg)
           /\ \A i \in 1..Len(fnArg.arg) :
                 LET peer == fnArg.arg[i].fromId
                     o == fnRet.value[i]
                 IN IF IsPerson(peer)
                    THEN FromIdIsTheSendersId(o, peer)
                    ELSE "fromId" \notin DOMAIN o

\* A message from person 555 followed by one posted by a channel, with no
\* sender object: "555", then no fromId beside a sender that is null.
C15_Witness ==
    /\ fnRet.done
    /\ fnArg.fn = "getMessages"
    /\ Len(fnArg.arg) = 2
    /\ fnArg.arg[1].fromId = PeerUser(555)
    /\ fnArg.arg[2] = [fromId |-> PeerChannel(42), sender |-> FALSE]
    /\ fnRet.value[1].fromId = Str(<<"5", "5", "5">>)
    /\ DOMAIN fnRet.value[2] = {"sender"}
    /\ fnRet.value[2].sender = Null

----------------------------------------------------------------------------
\* The summaries of get_dialogs.

DetailKeys == {"user", "chat", "channel"}

\* The nested detail objects a summary carries.
Carried(o) == DOMAIN o \cap DetailKeys

\* The detail object that matches a conversation of a person, a group or a
\* broadcast channel.
Matching(entity) ==
    CASE entity = "User" -> {"user"}
      [] entity = "Chat" -> {"chat"}
      [] entity = "Channel" -> {"channel"}
      [] OTHER -> {}

\* One summary per dialog of the backend, in the backend's order.
OneSummaryPerDialogInOrder ==
    /\ Len(fnRet.value) = Len(fnArg.arg)
    /\ \A i \in 1..Len(fnArg.arg) :
          /\ "id" \in DOMAIN fnRet.value[i]
          /\ ParseDecimal(fnRet.value[i].id.v) = fnArg.arg[i].id

\* C16 as it stands: one summary per conversation, in order, each with
\* exactly one of user, chat and channel, the one matching the conversation.
C16_ExactlyOneDetail ==
    (fnRet.done /\ fnArg.fn = "getDialogs")
        => /\ OneSummaryPerDialogInOrder
           /\ \A i \in 1..Len(fnArg.arg) :
                 LET o == fnRet.value[i]
                     entity == fnArg.arg[i].entity
                 IN /\ Cardinality(Carried(o)) = 1
                    /\ Matching(entity) # {} => Carried(o) = Matching(entity)

\* C16, amended: get_dialogs answers one summary per conversation of the
\* backend, in the backend's order; a summary whose conversation's entity is
\* a User, a Chat or a Channel carries exactly the matching one of user, chat
\* and channel, an object, and neither of the other two; a summary whose
\* entity is of any other class, or missing, carries none of the three.
C16_AtMostOneDetail ==
    (fnRet.done /\ fnArg.fn = "getDialogs")
        => /\ OneSummaryPerDialogInOrder
           /\ \A i \in 1..Len(fnArg.arg) :
                 LET o == fnRet.value[i]
                     entity == fnArg.arg[i].entity
                 IN /\ Carried(o) = Matching(entity)
                    /\ \A k \in Carried(o) : o[k].t = "object"
                    /\ entity \notin {"User", "Chat", "Channel"} => Carried(o) = {}

\* A person's conversation followed by a channel's: user alone, then channel
\* alone.
C16_Witness ==
    /\ fnRet.done
    /\ fnArg.fn = "getDialogs"
    /\ Len(fnArg.arg) = 2
    /\ fnArg.arg[1] = [id |-> 42, entity |-> "User", message |-> FALSE]
    /\ fnArg.arg[2] = [id |-> 555, entity |-> "Channel", message |-> TRUE]
    /\ DOMAIN fnRet.value[1] = {"id", "user"}
    /\ DOMAIN fnRet.value[2] = {"id", "channel", "lastMessage"}
    /\ fnRet.value[2].id = Str(<<"5", "5", "5">>)

----------------------------------------------------------------------------
\* The handle of get_messages.

\* C17: a getMessages call waiting for its message fetch issued that fetch on
\* the handle it had issued getEntity on.  Stated as the claim has it;
\* getMessages reads this.client once for getEntity and again for the fetch,
\* so a connect-class call that runs while getEntity is awaited moves the
\* fetch to the client it has just constructed.
C17_SameHandleForBothCalls ==
    \A c \in Suspended : c.pc = "messages" => c.h = c.h1

====
